---- MODULE Spec2Model ----
(***************************************************************************)
(* Model of mlflow-cli's artifact upload path: the `log artifact` command  *)
(* (cmd/artifact.go), Client.UploadArtifact / UploadArtifacts and the      *)
(* storage routines behind them (internal/mlflow/artifact.go).             *)
(* It also covers timeutils.AlignTimestamp and timeutils.ProcessMetrics     *)
(* (internal/time/utils.go).                                               *)
(*                                                                         *)
(* Go strings are modelled as sequences of one-character strings, so that  *)
(* strings.HasPrefix / TrimPrefix / Split act on them as they do in Go.    *)
(***************************************************************************)
EXTENDS Integers, Sequences, FiniteSets, TLC

VARIABLES
    mode,          \* entry point: "logArtifact" | "UploadArtifacts" | "extract" | "signed"
    cfg,           \* Client: [TrackingURI, apiClient] (config.Config, *httpclient.ApiClient)
    files,         \* --file flags, in input order
    artifactPath,  \* --artifact-path flag ("" = unset)
    pc,            \* position in the running command
    i,             \* index of the file the loop is at (1-based)
    remaining,     \* UploadArtifacts: map keys not yet iterated
    successCount,  \* logArtifact's successCount
    result,        \* what the command returned: "none" | "ok" | "error"
    attempts,      \* indices of the files whose loop body has started, in order
    notFound,      \* indices whose os.Stat reported a not-exist error
    uploaded,      \* indices whose UploadArtifact call returned nil
    calls,         \* log of requests sent to the tracking service / storage
    err,           \* error of the UploadArtifact call in progress ("" = nil)
    artifactURI,   \* UploadArtifact: artifact URI of the run
    targetPath,    \* UploadArtifact: artifactPath argument
    ids,           \* result of extractIDsFromArtifactURI / extractRunIDFromDBFSURI
    credentials,   \* uploadToDBFS: credential_infos returned by the broker
    file,          \* open file handle: [open, size]
    req,           \* the *http.Request last built (NoReq = none)
    fs,            \* local artifact tree: paths created by uploadToLocalFS
    metrics,       \* ProcessMetrics: the input points read so far ([]models.MetricPoint)
    config,        \* ProcessMetrics: models.TimeConfig
    baseTime,      \* ProcessMetrics: *time.Time argument
    base,          \* ProcessMetrics: base time.Time
    resultMetrics, \* ProcessMetrics: result []models.Metric
    clock,         \* the last value time.Now() returned
    settings,      \* config.Config: TimeResolution, TimeAlignment, StepMode (viper)
    flags,         \* log metrics: --time-resolution, --time-alignment, --step-mode;
                   \* run end: --status
    runStatus      \* UpdateRun: the status argument

vars == <<mode, cfg, files, artifactPath, pc, i, remaining, successCount, result,
          attempts, notFound, uploaded, calls, err, artifactURI, targetPath, ids,
          credentials, file, req, fs, metrics, config, baseTime, base, resultMetrics,
          clock, settings, flags, runStatus>>

\* what the `log metrics` command reads before it processes anything
CmdVars == <<settings, flags, runStatus>>

\* the state of a ProcessMetrics call
TimeVars == <<metrics, config, baseTime, base, resultMetrics, clock, CmdVars>>

----------------------------------------------------------------------------
(* String literals of the source.                                          *)

MlflowArtifactsColon == <<"m", "l", "f", "l", "o", "w", "-", "a", "r", "t", "i", "f", "a", "c", "t", "s", ":">>
MlflowArtifactsScheme == MlflowArtifactsColon \o <<"/">>
DbfsScheme == <<"d", "b", "f", "s", ":", "/">>
DbfsTrackingPrefix == DbfsScheme \o <<"d", "a", "t", "a", "b", "r", "i", "c", "k", "s", "/", "m", "l", "f", "l", "o", "w", "-", "t", "r", "a", "c", "k", "i", "n", "g", "/">>
FileScheme == <<"f", "i", "l", "e", ":", "/", "/">>
Slash == <<"/">>
DatabricksWord == <<"d", "a", "t", "a", "b", "r", "i", "c", "k", "s">>
DatabricksProto == DatabricksWord \o <<":", "/", "/">>
HttpsScheme == <<"h", "t", "t", "p", "s", ":", "/", "/">>
databricksDomains ==
    << <<".", "c", "l", "o", "u", "d", ".", "d", "a", "t", "a", "b", "r", "i", "c", "k", "s", ".", "c", "o", "m">>,
       <<".", "a", "z", "u", "r", "e", "d", "a", "t", "a", "b", "r", "i", "c", "k", "s", ".", "n", "e", "t">>,
       <<".", "g", "c", "p", ".", "d", "a", "t", "a", "b", "r", "i", "c", "k", "s", ".", "c", "o", "m">> >>

----------------------------------------------------------------------------
(* Go's strings and path/filepath functions, as the source uses them.      *)

HasPrefix(s, p) == Len(s) >= Len(p) /\ SubSeq(s, 1, Len(p)) = p

HasSuffix(s, p) == Len(s) >= Len(p) /\ SubSeq(s, Len(s) - Len(p) + 1, Len(s)) = p

TrimPrefix(s, p) == IF HasPrefix(s, p) THEN SubSeq(s, Len(p) + 1, Len(s)) ELSE s

\* strings.Index(s, "/"): 1-based position of the first "/", 0 when there is none
IndexSlash(s) ==
    IF \E k \in 1..Len(s) : s[k] = "/"
    THEN CHOOSE k \in 1..Len(s) : s[k] = "/" /\ \A j \in 1..(k - 1) : s[j] # "/"
    ELSE 0

\* strings.Split(s, "/"): always at least one part; "" splits into <<"">>
RECURSIVE Split(_)
Split(s) ==
    LET k == IndexSlash(s)
    IN  IF k = 0 THEN <<s>>
        ELSE <<SubSeq(s, 1, k - 1)>> \o Split(SubSeq(s, k + 1, Len(s)))

\* position of the last "/" of s, 0 when there is none
LastSlash(s) ==
    IF \E k \in 1..Len(s) : s[k] = "/"
    THEN CHOOSE k \in 1..Len(s) : s[k] = "/" /\ \A j \in (k + 1)..Len(s) : s[j] # "/"
    ELSE 0

RECURSIVE StripTrailingSlashes(_)
StripTrailingSlashes(s) ==
    IF Len(s) > 0 /\ s[Len(s)] = "/" THEN StripTrailingSlashes(SubSeq(s, 1, Len(s) - 1)) ELSE s

\* filepath.Base: "." for "", the last element otherwise, "/" for a path of slashes
Base(path) ==
    IF path = <<>> THEN <<".">>
    ELSE LET p == StripTrailingSlashes(path)
         IN  IF p = <<>> THEN Slash
             ELSE SubSeq(p, LastSlash(p) + 1, Len(p))

\* filepath.Dir of a path without "." / ".." elements or doubled slashes
Dir(path) ==
    LET k == LastSlash(path)
        d == StripTrailingSlashes(SubSeq(path, 1, k))
    IN  IF k = 0 THEN <<".">>
        ELSE IF d = <<>> THEN Slash
        ELSE d

----------------------------------------------------------------------------
(* config.Config                                                           *)

extractHostFromURL(url) ==
    LET host == TrimPrefix(url, HttpsScheme)
        idx  == IndexSlash(host)
    IN  IF idx # 0 THEN SubSeq(host, 1, idx - 1) ELSE host

isDatabricksHost(host) ==
    \E d \in 1..Len(databricksDomains) : HasSuffix(host, databricksDomains[d])

IsDatabricks(c) ==
    IF c.TrackingURI = DatabricksWord THEN TRUE
    ELSE IF HasPrefix(c.TrackingURI, DatabricksProto) THEN TRUE
    ELSE IF HasPrefix(c.TrackingURI, HttpsScheme)
         THEN isDatabricksHost(extractHostFromURL(c.TrackingURI))
    ELSE FALSE

----------------------------------------------------------------------------
(* URI parsing.                                                            *)

NoIDs == [err |-> FALSE, experimentID |-> <<>>, runID |-> <<>>]

\* the leading-empty-element removal of extractIDsFromArtifactURI
StripLeadingEmpty(parts) ==
    IF parts[1] = <<>> /\ Len(parts) > 3 THEN Tail(parts) ELSE parts

extractIDsFromArtifactURI(uri) ==
    LET parts == Split(TrimPrefix(uri, MlflowArtifactsColon))
    IN  IF Len(parts) < 3
        THEN [err |-> TRUE, experimentID |-> <<>>, runID |-> <<>>]
        ELSE LET p == StripLeadingEmpty(parts)
             IN  IF Len(p) < 3
                 THEN [err |-> TRUE, experimentID |-> <<>>, runID |-> <<>>]
                 ELSE [err |-> FALSE, experimentID |-> p[1], runID |-> p[2]]

extractRunIDFromDBFSURI(uri) ==
    IF ~HasPrefix(uri, DbfsTrackingPrefix)
    THEN [err |-> TRUE, experimentID |-> <<>>, runID |-> <<>>]
    ELSE LET parts == Split(TrimPrefix(uri, DbfsTrackingPrefix))
         IN  IF Len(parts) < 2 THEN [err |-> TRUE, experimentID |-> <<>>, runID |-> <<>>]
             ELSE IF parts[2] = <<>> THEN [err |-> TRUE, experimentID |-> <<>>, runID |-> <<>>]
             ELSE [err |-> FALSE, experimentID |-> <<>>, runID |-> parts[2]]

\* a plausible slip: the direct-store prefix tested without its "/"
uploadToStorageLoosePrefix(uri) ==
    IF HasPrefix(uri, MlflowArtifactsColon) THEN "mlflow-artifacts"
    ELSE IF HasPrefix(uri, DbfsScheme) THEN "dbfs"
    ELSE IF HasPrefix(uri, FileScheme) \/ HasPrefix(uri, Slash) THEN "localfs"
    ELSE "unsupported"

\* the branch uploadToStorage takes for an artifact URI
uploadToStorage(uri) ==
    IF HasPrefix(uri, MlflowArtifactsScheme) THEN "mlflow-artifacts"
    ELSE IF HasPrefix(uri, DbfsScheme) THEN "dbfs"
    ELSE IF HasPrefix(uri, FileScheme) \/ HasPrefix(uri, Slash) THEN "localfs"
    ELSE "unsupported"

----------------------------------------------------------------------------
(* http.Header and the requests the client builds.  A header map is a      *)
(* function from canonical header names to values.                         *)

EmptyHeader == [n \in {} |-> ""]

\* textproto.CanonicalMIMEHeaderKey, on the header names used here
CanonicalKey(name) ==
    CASE name = "content-type"      -> "Content-Type"
      [] name = "content-length"    -> "Content-Length"
      [] name = "x-ms-blob-type"    -> "X-Ms-Blob-Type"
      [] name = "transfer-encoding" -> "Transfer-Encoding"
      [] name = "authorization"     -> "Authorization"
      [] OTHER                      -> name

\* req.Header.Set(name, value)
HeaderSet(h, name, value) ==
    LET k == CanonicalKey(name)
    IN  [n \in DOMAIN h \cup {k} |-> IF n = k THEN value ELSE h[n]]

\* req.Header.Del(name)
HeaderDel(h, name) == [n \in DOMAIN h \ {CanonicalKey(name)} |-> h[n]]

\* http.NewRequestWithContext fails when the URL does not parse
BadURL == "%zz"
URLParses(u) == u # BadURL

\* status: 0 = not sent, TransportError = client.Do returned an error
NoReq == [err |-> FALSE, kind |-> "none", URL |-> "", ContentLength |-> 0,
          Header |-> EmptyHeader, status |-> 0]

\* the switch on credential.Type of createSignedURIRequest
SetTypeHeaders(h, type) ==
    CASE type = "AWS_PRESIGNED_URL" ->
            HeaderDel(HeaderSet(h, "Content-Type", "application/octet-stream"), "Transfer-Encoding")
      [] type = "AZURE_SAS_URI" ->
            HeaderSet(HeaderSet(h, "Content-Type", "application/octet-stream"),
                      "x-ms-blob-type", "BlockBlob")
      [] type = "GCP_SIGNED_URL" -> HeaderSet(h, "Content-Type", "application/octet-stream")
      [] type = "AZURE_ADLS_GEN2_SAS_URI" -> HeaderSet(h, "Content-Type", "application/octet-stream")
      [] OTHER -> HeaderSet(h, "Content-Type", "application/octet-stream")

\* a plausible slip: a broker header is added only when the name is still unset
RECURSIVE AddCustomHeadersKeepDefaults(_, _)
AddCustomHeadersKeepDefaults(h, headers) ==
    IF headers = <<>> THEN h
    ELSE AddCustomHeadersKeepDefaults(
             IF CanonicalKey(Head(headers).Name) \in DOMAIN h THEN h
             ELSE HeaderSet(h, Head(headers).Name, Head(headers).Value),
             Tail(headers))

\* the loop over credential.Headers of createSignedURIRequest
RECURSIVE AddCustomHeaders(_, _)
AddCustomHeaders(h, headers) ==
    IF headers = <<>> THEN h
    ELSE AddCustomHeaders(HeaderSet(h, Head(headers).Name, Head(headers).Value), Tail(headers))

\* fmt.Sprintf("%d", n), on the file sizes used here
FormatInt(n) == CASE n = 0 -> "0" [] n = 7 -> "7" [] OTHER -> "n"

\* a plausible slip: the token is sent whatever the tracking server is
addAuthHeadersAlways(h, c) ==
    IF c.Token # "" THEN HeaderSet(h, "Authorization", c.Token) ELSE h

\* addAuthHeaders
addAuthHeaders(h, c) ==
    IF IsDatabricks(c) /\ c.Token # "" THEN HeaderSet(h, "Authorization", c.Token) ELSE h

\* a plausible slip: the signed request is given the headers of a direct one
createSignedURIRequestWithAuth(credential, contentLength) ==
    IF ~URLParses(credential.SignedURI)
    THEN [NoReq EXCEPT !.err = TRUE, !.kind = "signed"]
    ELSE [err |-> FALSE, kind |-> "signed", URL |-> credential.SignedURI,
          ContentLength |-> contentLength,
          Header |-> addAuthHeaders(
                         AddCustomHeaders(
                             SetTypeHeaders(HeaderSet(EmptyHeader, "Content-Length",
                                                      FormatInt(contentLength)),
                                            credential.Type),
                             credential.Headers),
                         cfg),
          status |-> 0]

\* createSignedURIRequest
createSignedURIRequest(credential, contentLength) ==
    IF ~URLParses(credential.SignedURI)
    THEN [NoReq EXCEPT !.err = TRUE, !.kind = "signed"]
    ELSE [err |-> FALSE, kind |-> "signed", URL |-> credential.SignedURI,
          ContentLength |-> contentLength,
          Header |-> AddCustomHeaders(
                         SetTypeHeaders(HeaderSet(EmptyHeader, "Content-Length",
                                                  FormatInt(contentLength)),
                                        credential.Type),
                         credential.Headers),
          status |-> 0]

\* isSuccessStatusCode
isSuccessStatusCode(statusCode) == statusCode >= 200 /\ statusCode < 300

\* an artifact path with an invalid URL escape: the URL built from it does not parse
BadPath == <<"%", "z", "z">>

\* createPutRequest, for the URL uploadToMLflowArtifacts builds
createPutRequest(c, experimentID, runID, path, contentLength) ==
    IF path = BadPath
    THEN [NoReq EXCEPT !.err = TRUE, !.kind = "direct"]
    ELSE
    [err |-> FALSE, kind |-> "direct",
     URL |-> <<c.TrackingURI, experimentID, runID, path>>,
     ContentLength |-> contentLength,
     Header |-> addAuthHeaders(
                    HeaderSet(HeaderSet(EmptyHeader, "Content-Type", "application/octet-stream"),
                              "Content-Length", FormatInt(contentLength)),
                    c),
     status |-> 0]

----------------------------------------------------------------------------
(* package timeutils (internal/time/utils.go).  A time.Time is an integer  *)
(* count of ticks of 30 seconds since Go's zero time (January 1, year 1,   *)
(* 00:00:00 UTC), the origin Time.Truncate rounds from; a time.Duration is *)
(* a count of the same ticks.  Every resolution and every half resolution  *)
(* is a whole number of ticks.                                             *)

Minute == 2            \* time.Minute, in ticks
Hour == 60 * Minute    \* time.Hour

\* the largest time.Duration (2^63 - 1 ns, about 292 years), in whole ticks
maxDuration == 307445734
minDuration == -maxDuration

\* a nil pointer and a pointer to v (*time.Time, *int64)
Nil == [nil |-> TRUE, v |-> 0]
Ptr(x) == [nil |-> FALSE, v |-> x]

\* Time.Truncate(d), d > 0: the remainder of |t| by d, turned into the remainder
\* of t when t is before the zero time, is taken off t
Truncate(t, d) ==
    LET neg == t < 0
        abs == IF neg THEN 0 - t ELSE t
        r0 == abs % d
        r == IF neg /\ r0 # 0 THEN d - r0 ELSE r0
    IN  t - r

\* Time.Sub(u): the difference, or the largest / smallest Duration when the
\* difference does not fit a Duration
TimeSub(t, u) ==
    LET d == t - u
    IN  IF d > maxDuration THEN maxDuration
        ELSE IF d < minDuration THEN minDuration
        ELSE d

\* int64(d.Minutes()): the float number of minutes, truncated toward zero
Int64Minutes(d) == IF d >= 0 THEN d \div Minute ELSE 0 - ((0 - d) \div Minute)

SupportedResolutions == {"1m", "5m", "1h"}
SupportedAlignments == {"floor", "ceil", "round"}

\* the switch on resolution of AlignTimestamp
ResolutionDuration(resolution) ==
    CASE resolution = "1m" -> Minute
      [] resolution = "5m" -> 5 * Minute
      [] resolution = "1h" -> Hour
      [] OTHER -> 0

\* a plausible slip: ceil always advances
CeilAlways(t, aligned, duration) == aligned + duration
\* case "ceil" of AlignTimestamp
Ceil(t, aligned, duration) == IF t > aligned THEN aligned + duration ELSE aligned

\* a plausible slip: the half-way point rounds down
RoundHalfDown(t, aligned, duration) ==
    IF TimeSub(t, aligned) > duration \div 2 THEN aligned + duration ELSE aligned
\* case "round" of AlignTimestamp
Round(t, aligned, duration) ==
    LET half == duration \div 2
    IN  IF TimeSub(t, aligned) >= half THEN aligned + duration ELSE aligned

\* a plausible slip: floor keeps the timestamp
FloorKeeps(t, aligned) == t
\* case "floor" of AlignTimestamp
Floor(t, aligned) == aligned

\* a plausible slip: an alignment that is not recognised is taken as floor
AlignTimestampLenient(t, resolution, alignment) ==
    IF resolution \notin SupportedResolutions
    THEN [time |-> t, err |-> "unsupported resolution"]
    ELSE LET duration == ResolutionDuration(resolution)
             aligned == Truncate(t, duration)
         IN  CASE alignment = "ceil"  -> [time |-> Ceil(t, aligned, duration), err |-> ""]
               [] alignment = "round" -> [time |-> Round(t, aligned, duration), err |-> ""]
               [] OTHER -> [time |-> Floor(t, aligned), err |-> ""]

\* AlignTimestamp: [time, err]; err is "" for nil
AlignTimestamp(t, resolution, alignment) ==
    IF resolution \notin SupportedResolutions
    THEN [time |-> t, err |-> "unsupported resolution"]
    ELSE LET duration == ResolutionDuration(resolution)
             aligned == Truncate(t, duration)
         IN  CASE alignment = "floor" -> [time |-> Floor(t, aligned), err |-> ""]
               [] alignment = "ceil"  -> [time |-> Ceil(t, aligned, duration), err |-> ""]
               [] alignment = "round" -> [time |-> Round(t, aligned, duration), err |-> ""]
               [] OTHER -> [time |-> t, err |-> "unsupported alignment"]

\* the defaults of the configuration (viper.SetDefault) and no flag given
CmdIdle ==
    /\ settings = [TimeResolution |-> "1m", TimeAlignment |-> "floor", StepMode |-> "auto"]
    /\ flags = [TimeResolution |-> "", TimeAlignment |-> "", StepMode |-> ""]
    /\ runStatus = ""

\* no ProcessMetrics call in progress
TimeIdle ==
    /\ CmdIdle
    /\ metrics = <<>>
    /\ config = [Resolution |-> "1m", Alignment |-> "floor", StepMode |-> "auto"]
    /\ baseTime = Nil
    /\ base = 0
    /\ resultMetrics = <<>>
    /\ clock = 0

----------------------------------------------------------------------------
(* Bounds and input sets.                                                  *)

MaxFiles == 3          \* files of one `log artifact` / UploadArtifacts request
MaxSegments == 4       \* path segments after the scheme of an artifact URI
MaxHeaders == 2        \* custom headers of one credential

TransportError == -1

TrackingURIs ==
    { <<>>,
      <<"h", "t", "t", "p", ":", "/", "/", "h">>,
      DatabricksProto \o <<"p">>,
      HttpsScheme \o <<"x">> \o databricksDomains[1] }

Configs == [TrackingURI : TrackingURIs, apiClient : BOOLEAN, Token : {"", "Bearer t"}]

\* the k-th --file argument: a bare name, then the same name in a directory
FilePath(k) ==
    LET name == <<"a", "c", "e", "g">>[(((k - 1) \div 2) % 4) + 1]
    IN  IF k % 2 = 0 THEN <<"d", "/", name>> ELSE <<name>>

ArtifactPathFlags == { <<>>, <<"m", "/", "p">>, BadPath }

\* artifact URIs a GetRun response carries in the command's run
FlowURIs ==
    { <<>>,
      MlflowArtifactsScheme \o <<"0", "/", "r", "/", "a">>,
      MlflowArtifactsScheme \o <<"0", "/", "r">>,
      MlflowArtifactsScheme \o <<"0">>,
      DbfsTrackingPrefix \o <<"0", "/", "r", "/", "a">>,
      DbfsTrackingPrefix \o <<"0">>,
      DbfsScheme \o <<"x">>,
      FileScheme \o <<"/", "t">>,
      <<"/", "t">>,
      <<"s", "3", ":", "/", "/", "b">>,
      MlflowArtifactsColon \o <<"x">> }

CredentialTypes ==
    {"AWS_PRESIGNED_URL", "AZURE_SAS_URI", "GCP_SIGNED_URL", "AZURE_ADLS_GEN2_SAS_URI", "OTHER"}

HeaderNames ==
    {"Content-Type", "content-length", "x-ms-blob-type", "Transfer-Encoding",
     "Authorization", "X-Custom"}

HeaderValues == {"v1", "v2"}

HTTPHeaders == [Name : HeaderNames, Value : HeaderValues]

RECURSIVE SeqsUpTo(_, _)
SeqsUpTo(S, n) ==
    IF n = 0 THEN {<<>>}
    ELSE LET shorter == SeqsUpTo(S, n - 1)
         IN  shorter \cup {Append(q, x) : q \in {r \in shorter : Len(r) = n - 1}, x \in S}

\* credentials the broker returns in the command's run: at most one custom header
FlowCredentials ==
    [Type : CredentialTypes,
     Headers : SeqsUpTo([Name : HeaderNames, Value : {"v1"}], 1),
     SignedURI : {"https://signed"}]
    \cup [Type : {"AWS_PRESIGNED_URL"}, Headers : {<<>>}, SignedURI : {BadURL}]

FileSizes == {0, 7}

Statuses == {199, 200, 299, 300, 404, 500}

\* file handles: open is the set of handles the process holds open
NoFile == [open |-> {}, size |-> 0]

\* file.Close(), explicit or deferred; CloseNothing is a close that was left out
CloseNothing(handles, h) == handles
Close(handles, h) == handles \ {h}

Call(op, k, paths, cred, ok) == [op |-> op, file |-> k, paths |-> paths, cred |-> cred, ok |-> ok]

----------------------------------------------------------------------------
(* Client.UploadArtifact: the steps of one upload, shared by the `log      *)
(* artifact` command and Client.UploadArtifacts.  Each step that returns   *)
(* from UploadArtifact leaves pc = "return" with err set.                  *)

Locals == <<artifactURI, targetPath, ids, credentials, file, req>>
Frame == <<mode, cfg, files, artifactPath, remaining, successCount, result, attempts,
           notFound, uploaded, TimeVars>>

\* getArtifactURI: one GetRun request; an empty artifact URI is an error
GetArtifactURI ==
    /\ pc = "getArtifactURI"
    /\ \/ /\ calls' = Append(calls, Call("GetRun", i, <<>>, 0, FALSE))
          /\ err' = "GetRunFailed"
          /\ pc' = "return"
          /\ UNCHANGED artifactURI
       \/ \E uri \in FlowURIs :
             /\ calls' = Append(calls, Call("GetRun", i, <<>>, 0, TRUE))
             /\ IF uri = <<>>
                THEN err' = "ArtifactURINotFound" /\ pc' = "return" /\ UNCHANGED artifactURI
                ELSE err' = "" /\ pc' = "uploadToStorage" /\ artifactURI' = uri
    /\ targetPath' = IF targetPath = <<>> THEN Base(files[i]) ELSE targetPath
    /\ UNCHANGED <<Frame, i, ids, credentials, file, req, fs>>

\* uploadToStorage: dispatch on the scheme
UploadToStorage ==
    /\ pc = "uploadToStorage"
    /\ LET branch == uploadToStorage(artifactURI)
       IN  IF branch = "unsupported"
           THEN err' = "UnsupportedScheme" /\ pc' = "return"
           ELSE err' = "" /\ pc' = branch
    /\ UNCHANGED <<Frame, i, calls, Locals, fs>>

\* uploadToMLflowArtifacts, up to the opening of the file
UploadToMLflowArtifacts ==
    /\ pc = "mlflow-artifacts"
    /\ ids' = extractIDsFromArtifactURI(artifactURI)
    /\ IF ids'.err
       THEN err' = "InvalidURI" /\ pc' = "return"
       ELSE err' = "" /\ pc' = "openDirect"
    /\ UNCHANGED <<Frame, i, calls, artifactURI, targetPath, credentials, file, req, fs>>

\* the path list of the credentials-for-write request of uploadToDBFS
CredentialPathsEmpty(path) == <<>>
CredentialPaths(path) == <<path>>

\* the condition under which getCredentialsForWrite sends its request
CanRequestWithoutMode(c) == c.apiClient
CanRequestCredentials(c) == IsDatabricks(c) /\ c.apiClient

\* the error of uploadToDBFS once the broker has answered with infos
EmptyIsSuccess(infos) == ""
CheckCredentials(infos) == IF Len(infos) = 0 THEN "NoCredentials" ELSE ""

\* uploadToDBFS up to the upload: run ID, then getCredentialsForWrite
UploadToDBFS ==
    /\ pc = "dbfs"
    /\ ids' = extractRunIDFromDBFSURI(artifactURI)
    /\ IF ids'.err
       THEN /\ err' = "InvalidURI" /\ pc' = "return"
            /\ UNCHANGED <<calls, credentials>>
       ELSE IF ~CanRequestCredentials(cfg)
       THEN /\ err' = "NotDatabricks" /\ pc' = "return"
            /\ UNCHANGED <<calls, credentials>>
       ELSE \/ /\ calls' = Append(calls, Call("CredentialsForWrite", i,
                                              CredentialPaths(targetPath), 0, FALSE))
               /\ err' = "CredentialsRequestFailed" /\ pc' = "return"
               /\ UNCHANGED credentials
            \/ \E infos \in {<<>>} \cup {<<c>> : c \in FlowCredentials} :
                  /\ calls' = Append(calls, Call("CredentialsForWrite", i,
                                                 CredentialPaths(targetPath), 0, TRUE))
                  /\ credentials' = [k \in DOMAIN infos |->
                                        [Type |-> infos[k].Type, Headers |-> infos[k].Headers,
                                         SignedURI |-> infos[k].SignedURI,
                                         issued |-> Len(calls) + 1]]
                  /\ err' = CheckCredentials(infos)
                  /\ pc' = IF Len(infos) = 0 THEN "return" ELSE "openSigned"
    /\ UNCHANGED <<Frame, i, artifactURI, targetPath, file, req, fs>>

\* openFileWithInfo, called by uploadToMLflowArtifacts and uploadToSignedURI
OpenFileWithInfo ==
    /\ pc \in {"openDirect", "openSigned"}
    /\ \/ /\ err' = "OpenFailed" /\ pc' = "return" /\ UNCHANGED file
       \/ /\ err' = "StatFailed" /\ pc' = "return"
          /\ file' = [open |-> Close(file.open \cup {"file"}, "file"), size |-> 0]
       \/ \E size \in FileSizes :
             /\ file' = [open |-> file.open \cup {"file"}, size |-> size]
             /\ err' = ""
             /\ pc' = IF pc = "openDirect" THEN "putDirect" ELSE "putSigned"
    /\ UNCHANGED <<Frame, i, calls, artifactURI, targetPath, ids, credentials, req, fs>>

\* a plausible slip: the upper end of the range taken as inclusive
mlflowArtifactsUploadFailedAbove(statusCode) == statusCode < 200 \/ statusCode > 300

\* the status test of uploadToMLflowArtifacts: an error when it is true
mlflowArtifactsUploadFailed(statusCode) == statusCode < 200 \/ statusCode >= 300

\* the request, its sending and the deferred file.Close() of an uploading routine;
\* failed[status] is the routine's own test of the response status
SendRequest(op, r, credNo, failed) ==
    /\ IF r.err
       THEN /\ err' = "CreateRequestFailed"
            /\ req' = r
            /\ UNCHANGED calls
       ELSE \E status \in Statuses \cup {TransportError} :
               /\ req' = [r EXCEPT !.status = status]
               /\ calls' = Append(calls, Call(op, i, <<targetPath>>, credNo,
                                              status # TransportError /\ ~failed[status]))
               /\ err' = IF status = TransportError THEN "TransportError"
                         ELSE IF failed[status] THEN "BadStatus"
                         ELSE ""
    /\ file' = [file EXCEPT !.open = Close(file.open, "file")]
    /\ pc' = "return"

\* uploadToMLflowArtifacts from createPutRequest on
PutDirect ==
    /\ pc = "putDirect"
    /\ SendRequest("PutDirect",
                   createPutRequest(cfg, ids.experimentID, ids.runID, targetPath, file.size), 0,
                   [s \in Statuses |-> mlflowArtifactsUploadFailed(s)])
    /\ UNCHANGED <<Frame, i, artifactURI, targetPath, ids, credentials, fs>>

\* the status test of sendSignedURIRequest: an error when it is true
signedURIUploadFailed(statusCode) == ~isSuccessStatusCode(statusCode)

\* uploadToSignedURI from createSignedURIRequest on, with credentials[0]
PutSigned ==
    /\ pc = "putSigned"
    /\ SendRequest("PutSigned", createSignedURIRequest(credentials[1], file.size),
                   credentials[1].issued,
                   [s \in Statuses |-> signedURIUploadFailed(s)])
    /\ UNCHANGED <<Frame, i, artifactURI, targetPath, ids, credentials, fs>>

\* uploadToLocalFS
localPath(uri, path) ==
    LET root == TrimPrefix(uri, FileScheme)
    IN  (IF HasSuffix(root, Slash) THEN root ELSE root \o Slash) \o path

UploadToLocalFS ==
    /\ pc = "localfs"
    /\ LET dest == localPath(artifactURI, targetPath)
           source == file.open \cup {"sourceFile"}
           both == source \cup {"destFile"}
       IN  \/ err' = "MkdirFailed" /\ UNCHANGED <<fs, file>>
           \/ err' = "OpenFailed" /\ fs' = fs \cup {Dir(dest)} /\ UNCHANGED file
           \/ /\ err' = "CreateFailed" /\ fs' = fs \cup {Dir(dest)}
              /\ file' = [file EXCEPT !.open = Close(source, "sourceFile")]
           \/ /\ err' \in {"CopyFailed", ""} /\ fs' = fs \cup {Dir(dest), dest}
              /\ file' = [file EXCEPT !.open = Close(Close(both, "destFile"), "sourceFile")]
    /\ pc' = "return"
    /\ UNCHANGED <<Frame, i, calls, artifactURI, targetPath, ids, credentials, req>>

UploadArtifact ==
    \/ GetArtifactURI
    \/ UploadToStorage
    \/ UploadToMLflowArtifacts
    \/ UploadToDBFS
    \/ OpenFileWithInfo
    \/ PutDirect
    \/ PutSigned
    \/ UploadToLocalFS

----------------------------------------------------------------------------
(* The `log artifact` command: logArtifact.                                *)

ClearLocals ==
    /\ artifactURI' = <<>>
    /\ targetPath' = <<>>
    /\ ids' = NoIDs
    /\ credentials' = <<>>
    /\ file' = [open |-> file.open, size |-> 0]
    /\ req' = NoReq
    /\ err' = ""

InitCommon ==
    /\ i = 1
    /\ remaining = {}
    /\ successCount = 0
    /\ result = "none"
    /\ attempts = <<>>
    /\ notFound = {}
    /\ uploaded = {}
    /\ calls = <<>>
    /\ err = ""
    /\ artifactURI = <<>>
    /\ targetPath = <<>>
    /\ ids = NoIDs
    /\ credentials = <<>>
    /\ file = NoFile
    /\ req = NoReq
    /\ fs = {}
    /\ TimeIdle

Init ==
    /\ mode = "logArtifact"
    /\ cfg \in Configs
    /\ \E n \in 0..MaxFiles : files = [k \in 1..n |-> FilePath(k)]
    /\ artifactPath \in ArtifactPathFlags
    /\ pc = "start"
    /\ InitCommon

\* config.New, mlflow.NewClient, flag parsing and validation
LogArtifactStart ==
    /\ pc = "start"
    /\ \/ /\ cfg.TrackingURI = <<>>              \* cfg.Validate(): tracking URI is required
          /\ result' = "error" /\ pc' = "rejected"
       \/ /\ cfg.TrackingURI # <<>>              \* the workspace client cannot be created
          /\ result' = "error" /\ pc' = "rejected"
       \/ /\ cfg.TrackingURI # <<>>
          /\ IF Len(files) = 0 \/ (Len(files) > 1 /\ artifactPath # <<>>)
             THEN result' = "error" /\ pc' = "rejected"
             ELSE result' = "none" /\ pc' = "loop"
    /\ UNCHANGED <<TimeVars, mode, cfg, files, artifactPath, i, remaining, successCount, attempts,
                   notFound, uploaded, calls, err, Locals, fs>>

\* os.IsNotExist(err) of the os.Stat in the loop: true only for a not-exist error;
\* a path whose stat fails otherwise (e.g. permission denied) is not skipped
StatSkipsNothing(st) == FALSE
StatSkips(st) == st = "notexist"

\* one pass of the loop up to the call of client.UploadArtifact
LogArtifactNextFile ==
    /\ pc = "loop"
    /\ i <= Len(files)
    /\ attempts' = Append(attempts, i)
    /\ \E st \in {"ok", "notexist", "error"} :
          /\ notFound' = IF st = "notexist" THEN notFound \cup {i} ELSE notFound
          /\ IF StatSkips(st)
             THEN /\ i' = i + 1
                  /\ pc' = "loop"
                  /\ UNCHANGED targetPath
             ELSE /\ targetPath' = IF artifactPath # <<>> THEN artifactPath ELSE Base(files[i])
                  /\ pc' = "getArtifactURI"
                  /\ UNCHANGED i
    /\ UNCHANGED <<TimeVars, mode, cfg, files, artifactPath, remaining, successCount, result, uploaded,
                   calls, err, artifactURI, ids, credentials, file, req, fs>>

\* the counting of one upload's result
CountAlways(n, e) == n + 1
Count(n, e) == IF e # "" THEN n ELSE n + 1

\* the rest of the pass: UploadArtifact has returned err
LogArtifactReturn ==
    /\ pc = "return"
    /\ mode = "logArtifact"
    /\ successCount' = Count(successCount, err)
    /\ uploaded' = IF err = "" THEN uploaded \cup {i} ELSE uploaded
    /\ i' = i + 1
    /\ pc' = "loop"
    /\ ClearLocals
    /\ UNCHANGED <<TimeVars, mode, cfg, files, artifactPath, remaining, result, attempts, notFound,
                   calls, fs>>

\* the verdict after the loop
VerdictNeedsTwo(n) == IF n <= 1 THEN "error" ELSE "ok"
Verdict(n) == IF n = 0 THEN "error" ELSE "ok"

LogArtifactFinish ==
    /\ pc = "loop"
    /\ i > Len(files)
    /\ result' = Verdict(successCount)
    /\ pc' = "done"
    /\ UNCHANGED <<TimeVars, mode, cfg, files, artifactPath, i, remaining, successCount, attempts,
                   notFound, uploaded, calls, err, Locals, fs>>

Next ==
    \/ LogArtifactStart
    \/ LogArtifactNextFile
    \/ UploadArtifact
    \/ LogArtifactReturn
    \/ LogArtifactFinish

Spec == Init /\ [][Next]_vars

----------------------------------------------------------------------------
(* Client.UploadArtifacts: a range over the files map, whose iteration     *)
(* order Go leaves unspecified; the first failing upload returns.          *)

InitUploadArtifacts ==
    /\ mode = "UploadArtifacts"
    /\ cfg \in {c \in Configs : c.TrackingURI # <<>>}
    /\ \E n \in 0..MaxFiles : files = [k \in 1..n |-> FilePath(k)]
    /\ artifactPath = <<>>
    /\ pc = "range"
    /\ i = 1
    /\ remaining = DOMAIN files
    /\ successCount = 0
    /\ result = "none"
    /\ attempts = <<>>
    /\ notFound = {}
    /\ uploaded = {}
    /\ calls = <<>>
    /\ err = ""
    /\ artifactURI = <<>>
    /\ targetPath = <<>>
    /\ ids = NoIDs
    /\ credentials = <<>>
    /\ file = NoFile
    /\ req = NoReq
    /\ fs = {}
    /\ TimeIdle

\* the next key of the map, and the call of UploadArtifact for it
UploadArtifactsNext ==
    /\ pc = "range"
    /\ remaining # {}
    /\ \E k \in remaining, path \in ArtifactPathFlags :
          /\ i' = k
          /\ remaining' = remaining \ {k}
          /\ attempts' = Append(attempts, k)
          /\ targetPath' = path
    /\ pc' = "getArtifactURI"
    /\ UNCHANGED <<TimeVars, mode, cfg, files, artifactPath, successCount, result, notFound, uploaded,
                   calls, err, artifactURI, ids, credentials, file, req, fs>>

\* UploadArtifact has returned err: an error ends the range
UploadArtifactsReturn ==
    /\ pc = "return"
    /\ mode = "UploadArtifacts"
    /\ IF err # ""
       THEN result' = "error" /\ pc' = "done" /\ UNCHANGED uploaded
       ELSE result' = "none" /\ pc' = "range" /\ uploaded' = uploaded \cup {i}
    /\ ClearLocals
    /\ UNCHANGED <<TimeVars, mode, cfg, files, artifactPath, i, remaining, successCount, attempts,
                   notFound, calls, fs>>

UploadArtifactsFinish ==
    /\ pc = "range"
    /\ remaining = {}
    /\ result' = "ok"
    /\ pc' = "done"
    /\ UNCHANGED <<TimeVars, mode, cfg, files, artifactPath, i, remaining, successCount, attempts,
                   notFound, uploaded, calls, err, Locals, fs>>

NextUploadArtifacts ==
    \/ UploadArtifactsNext
    \/ UploadArtifact
    \/ UploadArtifactsReturn
    \/ UploadArtifactsFinish

SpecUploadArtifacts == InitUploadArtifacts /\ [][NextUploadArtifacts]_vars

----------------------------------------------------------------------------
(* extractIDsFromArtifactURI applied to the artifact URIs that reach it:   *)
(* "mlflow-artifacts:/" followed by up to MaxSegments path segments.       *)

Segments == { <<>>, <<"0">>, <<"r">>, <<"a", "b">> }

RECURSIVE Join(_)
Join(segs) ==
    IF segs = <<>> THEN <<>>
    ELSE IF Len(segs) = 1 THEN segs[1]
    ELSE segs[1] \o Slash \o Join(Tail(segs))

ExtractURIs == {MlflowArtifactsScheme \o Join(segs) : segs \in SeqsUpTo(Segments, MaxSegments)}

InitExtract ==
    /\ mode = "extract"
    /\ cfg = [TrackingURI |-> <<"h", "t", "t", "p", ":", "/", "/", "h">>, apiClient |-> FALSE,
              Token |-> ""]
    /\ files = <<FilePath(1)>>
    /\ artifactPath = <<>>
    /\ pc = "mlflow-artifacts"
    /\ i = 1
    /\ remaining = {}
    /\ successCount = 0
    /\ result = "none"
    /\ attempts = <<1>>
    /\ notFound = {}
    /\ uploaded = {}
    /\ calls = <<Call("GetRun", 1, <<>>, 0, TRUE)>>
    /\ err = ""
    /\ artifactURI \in ExtractURIs
    /\ targetPath = Base(FilePath(1))
    /\ ids = NoIDs
    /\ credentials = <<>>
    /\ file = NoFile
    /\ req = NoReq
    /\ fs = {}
    /\ TimeIdle

SpecExtract == InitExtract /\ [][UploadToMLflowArtifacts]_vars

----------------------------------------------------------------------------
(* createSignedURIRequest applied to every credential with up to           *)
(* MaxHeaders custom headers, from the point uploadToSignedURI holds the   *)
(* open file.                                                              *)

AllCredentials ==
    [Type : CredentialTypes, Headers : SeqsUpTo(HTTPHeaders, MaxHeaders),
     SignedURI : {"https://signed", BadURL}]

InitSigned ==
    /\ mode = "signed"
    /\ cfg = [TrackingURI |-> DatabricksProto \o <<"p">>, apiClient |-> TRUE, Token |-> ""]
    /\ files = <<FilePath(1)>>
    /\ artifactPath = <<>>
    /\ pc = "putSigned"
    /\ i = 1
    /\ remaining = {}
    /\ successCount = 0
    /\ result = "none"
    /\ attempts = <<1>>
    /\ notFound = {}
    /\ uploaded = {}
    /\ calls = <<Call("GetRun", 1, <<>>, 0, TRUE),
                 Call("CredentialsForWrite", 1, <<Base(FilePath(1))>>, 0, TRUE)>>
    /\ err = ""
    /\ artifactURI = DbfsTrackingPrefix \o <<"0", "/", "r", "/", "a">>
    /\ targetPath = Base(FilePath(1))
    /\ ids = extractRunIDFromDBFSURI(artifactURI)
    /\ \E c \in AllCredentials :
          credentials = << [Type |-> c.Type, Headers |-> c.Headers,
                            SignedURI |-> c.SignedURI, issued |-> 2] >>
    /\ \E size \in FileSizes : file = [open |-> {"file"}, size |-> size]
    /\ req = NoReq
    /\ fs = {}
    /\ TimeIdle

SpecSigned == InitSigned /\ [][PutSigned]_vars

----------------------------------------------------------------------------
(* timeutils.ProcessMetrics.  The slice is ranged over one point at a      *)
(* time: metrics holds the points read so far.  The first point is there   *)
(* from the start, because the choice of the base time looks at it; each   *)
(* later point is drawn as the range reaches it.                           *)

MaxPoints == 2         \* points of one ProcessMetrics call
MaxOffset == 125       \* ticks either side of an hour boundary that are aligned

\* 2024-01-01T00:00:00Z, an hour boundary, in ticks since the zero time
T0 == 2127988800

\* readings of the wall clock during the call
NowTimes == {T0 + 10, T0 + 15}

\* timestamps of input points: on the boundary, 90 s after it, 30 s before it,
\* and the zero time (0001-01-01T00:00:00Z)
PointTimes == {T0, T0 + 3, T0 - 1, 0}

StepValues == {7}

\* (execution_time, success_rate, error_count) of input points
PointValues == { <<0, 0, 0>>, <<1, 0, 2>>, <<3, 1, 0>> }

MetricPoint(ts, step, values) ==
    [Timestamp |-> ts, Step |-> step, ExecutionTime |-> values[1],
     SuccessRate |-> values[2], ErrorCount |-> values[3]]

MetricPoints ==
    {MetricPoint(ts, step, values) :
        ts \in {Nil} \cup {Ptr(x) : x \in PointTimes},
        step \in {Nil} \cup {Ptr(s) : s \in StepValues},
        values \in PointValues}

TimeConfigs ==
    [Resolution : SupportedResolutions, Alignment : SupportedAlignments,
     StepMode : {"auto", "timestamp", "sequence"}]
    \cup [Resolution : {"2m"}, Alignment : {"floor"}, StepMode : {"sequence"}]
    \cup [Resolution : {"1m"}, Alignment : {"nearest"}, StepMode : {"sequence"}]

\* time.Now(): a reading not before the last one
Now == {n \in NowTimes : n >= clock}

\* models.Metric; point is the index of the input point it was made from
Metric(key, value, timestamp, step, k) ==
    [Key |-> key, Value |-> value, Timestamp |-> timestamp, Step |-> step, point |-> k]

\* a plausible slip: the sequence policy is applied before the explicit step is
\* looked at
DetermineStepPolicyFirst(point, stepMode, timestamp, b, n) ==
    IF stepMode = "sequence" THEN n
    ELSE IF ~point.Step.nil THEN point.Step.v
    ELSE Int64Minutes(TimeSub(timestamp, b))

\* a plausible slip: auto looks at the kind of the first rule only
DetermineStepAutoSequence(point, stepMode, timestamp, b, n) ==
    IF ~point.Step.nil THEN point.Step.v
    ELSE CASE stepMode = "timestamp" -> Int64Minutes(TimeSub(timestamp, b))
           [] stepMode = "sequence" -> n
           [] stepMode = "auto" -> n
           [] OTHER -> 0

\* a plausible slip: the sequence counts from 1
DetermineStepOneBased(point, stepMode, timestamp, b, n) ==
    IF ~point.Step.nil THEN point.Step.v
    ELSE IF stepMode = "sequence" \/ (stepMode = "auto" /\ point.Timestamp.nil) THEN n + 1
    ELSE Int64Minutes(TimeSub(timestamp, b))

\* "Determine step" of the loop body; n is len(result)
DetermineStep(point, stepMode, timestamp, b, n) ==
    IF ~point.Step.nil THEN point.Step.v
    ELSE CASE stepMode = "timestamp" -> Int64Minutes(TimeSub(timestamp, b))
           [] stepMode = "sequence" -> n
           [] stepMode = "auto" ->
                 IF ~point.Timestamp.nil THEN Int64Minutes(TimeSub(timestamp, b)) ELSE n
           [] OTHER -> 0

\* a plausible slip: every metric of a point takes a step of its own
ConvertFieldsFreshStep(point, timestamp, step, k) ==
    LET first == IF point.ExecutionTime # 0
                 THEN <<Metric("execution_time", point.ExecutionTime, timestamp, step, k)>>
                 ELSE <<>>
        second == IF point.SuccessRate # 0
                  THEN <<Metric("success_rate", point.SuccessRate, timestamp,
                                step + Len(first), k)>>
                  ELSE <<>>
    IN  first \o second
          \o <<Metric("error_count", point.ErrorCount, timestamp,
                      step + Len(first) + Len(second), k)>>

\* a plausible slip: error_count is left out when it is 0, like the other fields
ConvertFieldsSkipZero(point, timestamp, step, k) ==
    (IF point.ExecutionTime # 0
     THEN <<Metric("execution_time", point.ExecutionTime, timestamp, step, k)>> ELSE <<>>)
    \o (IF point.SuccessRate # 0
        THEN <<Metric("success_rate", point.SuccessRate, timestamp, step, k)>> ELSE <<>>)
    \o (IF point.ErrorCount # 0
        THEN <<Metric("error_count", point.ErrorCount, timestamp, step, k)>> ELSE <<>>)

\* "Convert each field to a separate metric" of the loop body
ConvertFields(point, timestamp, step, k) ==
    (IF point.ExecutionTime # 0
     THEN <<Metric("execution_time", point.ExecutionTime, timestamp, step, k)>> ELSE <<>>)
    \o (IF point.SuccessRate # 0
        THEN <<Metric("success_rate", point.SuccessRate, timestamp, step, k)>> ELSE <<>>)
    \o <<Metric("error_count", point.ErrorCount, timestamp, step, k)>>

\* the entry points that call ProcessMetrics
ProcessMetricsModes == {"ProcessMetrics", "logMetrics"}

\* everything but the ProcessMetrics call is at rest
UploadIdle ==
    /\ CmdIdle
    /\ cfg = [TrackingURI |-> <<"h", "t", "t", "p", ":", "/", "/", "h">>, apiClient |-> FALSE,
              Token |-> ""]
    /\ files = <<>>
    /\ artifactPath = <<>>
    /\ i = 1
    /\ remaining = {}
    /\ successCount = 0
    /\ result = "none"
    /\ attempts = <<>>
    /\ notFound = {}
    /\ uploaded = {}
    /\ calls = <<>>
    /\ err = ""
    /\ artifactURI = <<>>
    /\ targetPath = <<>>
    /\ ids = NoIDs
    /\ credentials = <<>>
    /\ file = NoFile
    /\ req = NoReq
    /\ fs = {}

UploadVars == <<mode, cfg, files, artifactPath, remaining, successCount, attempts, notFound,
                uploaded, artifactURI, targetPath, ids, credentials, file, req, fs, CmdVars>>

InitProcessMetrics ==
    /\ mode = "ProcessMetrics"
    /\ pc = "start"
    /\ UploadIdle
    /\ metrics \in {<<>>} \cup {<<point>> : point \in MetricPoints}
    /\ config \in TimeConfigs
    /\ baseTime \in {Nil, Ptr(T0)}
    /\ base = 0
    /\ resultMetrics = <<>>
    /\ clock = T0 + 10

\* the choice of the base time
ProcessMetricsStart ==
    /\ pc = "start"
    /\ mode \in ProcessMetricsModes
    /\ IF ~baseTime.nil
       THEN base' = baseTime.v /\ UNCHANGED clock
       ELSE IF Len(metrics) > 0 /\ ~metrics[1].Timestamp.nil
       THEN base' = metrics[1].Timestamp.v /\ UNCHANGED clock
       ELSE \E now \in Now : base' = now /\ clock' = now
    /\ pc' = "range"
    /\ UNCHANGED <<UploadVars, calls, i, result, err, metrics, config, baseTime, resultMetrics>>

\* one pass of the loop, for the point the range is at: the first point, or a
\* further point drawn from further
ProcessPointFrom(further) ==
    /\ pc = "range"
    /\ mode \in ProcessMetricsModes
    /\ \E point \in (IF i <= Len(metrics) THEN {metrics[i]}
                     ELSE IF Len(metrics) >= 1 /\ Len(metrics) < MaxPoints THEN further
                     ELSE {}) :
          LET aligned == AlignTimestamp(point.Timestamp.v, config.Resolution, config.Alignment)
          IN  /\ metrics' = IF i <= Len(metrics) THEN metrics ELSE Append(metrics, point)
              /\ IF ~point.Timestamp.nil /\ aligned.err # ""
                 THEN /\ resultMetrics' = <<>>          \* return nil, err
                      /\ err' = aligned.err
                      /\ result' = "error"
                      /\ pc' = "done"
                      /\ UNCHANGED <<i, clock>>
                 ELSE \E now \in (IF point.Timestamp.nil THEN Now ELSE {clock}) :
                         LET timestamp == IF point.Timestamp.nil THEN now ELSE aligned.time
                             step == DetermineStep(point, config.StepMode, timestamp, base,
                                                   Len(resultMetrics))
                         IN  /\ resultMetrics' =
                                    resultMetrics \o ConvertFields(point, timestamp, step, i)
                             /\ clock' = now
                             /\ i' = i + 1
                             /\ pc' = "range"
                             /\ UNCHANGED <<err, result>>
    /\ UNCHANGED <<UploadVars, calls, config, baseTime, base>>

ProcessPoint == ProcessPointFrom(MetricPoints)

\* the range is over: return result, nil; in the `log metrics` command the call
\* of LogBatchMetrics comes next
ProcessMetricsReturn ==
    /\ pc = "range"
    /\ mode \in ProcessMetricsModes
    /\ i > Len(metrics)
    /\ result' = IF mode = "logMetrics" THEN "none" ELSE "ok"
    /\ pc' = IF mode = "logMetrics" THEN "logBatch" ELSE "done"
    /\ UNCHANGED <<UploadVars, calls, i, err, TimeVars>>

NextProcessMetrics ==
    \/ ProcessMetricsStart
    \/ ProcessPoint
    \/ ProcessMetricsReturn

SpecProcessMetrics == InitProcessMetrics /\ [][NextProcessMetrics]_vars

----------------------------------------------------------------------------
(* AlignTimestamp as ProcessMetrics applies it, for a single point whose   *)
(* timestamp is any tick within MaxOffset of an hour boundary: the         *)
(* boundary T0 and the zero time, before which a time.Time is negative.    *)

AlignTimes == {T0 + o : o \in (0 - MaxOffset)..MaxOffset} \cup (0 - MaxOffset)..MaxOffset

InitAlign ==
    /\ mode = "ProcessMetrics"
    /\ pc = "start"
    /\ UploadIdle
    /\ metrics \in {<<MetricPoint(ts, Nil, <<1, 0, 2>>)>> :
                        ts \in {Nil} \cup {Ptr(x) : x \in AlignTimes}}
    /\ config \in [Resolution : SupportedResolutions \cup {"2m"},
                   Alignment : SupportedAlignments \cup {"nearest"},
                   StepMode : {"timestamp"}]
    /\ baseTime = Nil
    /\ base = 0
    /\ resultMetrics = <<>>
    /\ clock = T0 + 10

ProcessSinglePoint == ProcessPointFrom({})

NextAlign ==
    \/ ProcessMetricsStart
    \/ ProcessSinglePoint
    \/ ProcessMetricsReturn

SpecAlign == InitAlign /\ [][NextAlign]_vars

----------------------------------------------------------------------------
(* The `log metrics` command: logMetrics, with the ProcessMetrics call     *)
(* above and Client.LogBatchMetrics after it.                              *)

validTimeResolutions == {"1m", "5m", "1h"}
validTimeAlignments == {"floor", "ceil", "round"}
validStepModes == {"auto", "timestamp", "sequence"}

\* Config.Validate: the error, "" for nil
Validate(c, s) ==
    IF c.TrackingURI = <<>> THEN "tracking URI is required"
    ELSE IF s.TimeResolution \notin validTimeResolutions THEN "invalid time resolution"
    ELSE IF s.TimeAlignment \notin validTimeAlignments THEN "invalid time alignment"
    ELSE IF s.StepMode \notin validStepModes THEN "invalid step mode"
    ELSE ""

\* values of the configuration (defaults, file, environment) and of the flags
SettingsValues ==
    [TimeResolution : {"1m", "2m"}, TimeAlignment : {"floor", "nearest"},
     StepMode : {"auto", "bogus"}]

FlagValues ==
    [TimeResolution : {"", "5m", "2m"}, TimeAlignment : {"", "ceil", "nearest"},
     StepMode : {"", "sequence", "bogus"}]

\* "Use config defaults if not specified"
FlagOrDefault(flag, default) == IF flag = "" THEN default ELSE flag

\* the points of the metrics file
FilePoints ==
    { MetricPoint(Ptr(T0 + 3), Nil, <<1, 0, 2>>),
      MetricPoint(Nil, Nil, <<0, 0, 0>>),
      MetricPoint(Ptr(T0), Ptr(7), <<3, 1, 0>>) }

InitLogMetrics ==
    /\ mode = "logMetrics"
    /\ pc = "command"
    /\ cfg \in [TrackingURI : {<<>>, <<"h", "t", "t", "p", ":", "/", "/", "h">>},
                apiClient : {FALSE}, Token : {""}]
    /\ files = <<>>
    /\ artifactPath = <<>>
    /\ i = 1
    /\ remaining = {}
    /\ successCount = 0
    /\ result = "none"
    /\ attempts = <<>>
    /\ notFound = {}
    /\ uploaded = {}
    /\ calls = <<>>
    /\ err = ""
    /\ artifactURI = <<>>
    /\ targetPath = <<>>
    /\ ids = NoIDs
    /\ credentials = <<>>
    /\ file = NoFile
    /\ req = NoReq
    /\ fs = {}
    /\ settings \in SettingsValues
    /\ flags \in FlagValues
    /\ runStatus = ""
    /\ metrics = <<>>
    /\ config = [Resolution |-> "", Alignment |-> "", StepMode |-> ""]
    /\ baseTime = Nil
    /\ base = 0
    /\ resultMetrics = <<>>
    /\ clock = T0 + 10

\* logMetrics up to the call of ProcessMetrics: NewClient (which validates the
\* configuration), the flags, the metrics file, the time configuration
LogMetricsStart ==
    /\ pc = "command"
    /\ mode = "logMetrics"
    /\ \/ /\ Validate(cfg, settings) # ""
          /\ err' = Validate(cfg, settings)
          /\ result' = "error" /\ pc' = "rejected"
          /\ UNCHANGED <<metrics, config>>
       \/ /\ Validate(cfg, settings) = ""
          /\ err' \in {"CreateClientFailed", "OpenFailed", "UnsupportedFormat", "ParseFailed"}
          /\ result' = "error" /\ pc' = "rejected"
          /\ UNCHANGED <<metrics, config>>
       \/ /\ Validate(cfg, settings) = ""
          /\ metrics' \in {<<>>} \cup {<<point>> : point \in FilePoints}
          /\ config' = [Resolution |-> FlagOrDefault(flags.TimeResolution, settings.TimeResolution),
                        Alignment |-> FlagOrDefault(flags.TimeAlignment, settings.TimeAlignment),
                        StepMode |-> FlagOrDefault(flags.StepMode, settings.StepMode)]
          /\ err' = ""
          /\ result' = "none" /\ pc' = "start"
    /\ UNCHANGED <<UploadVars, calls, i, baseTime, base, resultMetrics, clock>>

ProcessFilePoint == ProcessPointFrom(FilePoints)

\* a plausible slip: the loop goes on after a failed call
BatchContinues(e) == "logBatch"
\* LogBatchMetrics: an error of LogMetric is returned at once
BatchAfter(e) == IF e # "" THEN "done" ELSE "logBatch"

\* one pass of the loop of LogBatchMetrics: one LogMetric call for the next metric
LogBatchMetricsNext ==
    /\ pc = "logBatch"
    /\ mode = "logMetrics"
    /\ Len(calls) < Len(resultMetrics)
    /\ LET k == Len(calls) + 1
       IN  \E ok \in BOOLEAN :
              /\ calls' = Append(calls, Call("LogMetric", k, <<resultMetrics[k]>>, 0, ok))
              /\ err' = IF ok THEN err ELSE "LogMetricFailed"
              /\ pc' = BatchAfter(err')
              /\ result' = IF pc' = "done" THEN "error" ELSE "none"
    /\ UNCHANGED <<UploadVars, i, TimeVars>>

\* LogBatchMetrics returns nil and logMetrics prints its summary
LogBatchMetricsReturn ==
    /\ pc = "logBatch"
    /\ mode = "logMetrics"
    /\ Len(calls) = Len(resultMetrics)
    /\ result' = IF err = "" THEN "ok" ELSE "error"
    /\ pc' = "done"
    /\ UNCHANGED <<UploadVars, calls, i, err, TimeVars>>

NextLogMetrics ==
    \/ LogMetricsStart
    \/ ProcessMetricsStart
    \/ ProcessFilePoint
    \/ ProcessMetricsReturn
    \/ LogBatchMetricsNext
    \/ LogBatchMetricsReturn

SpecLogMetrics == InitLogMetrics /\ [][NextLogMetrics]_vars

----------------------------------------------------------------------------
(* Client.UpdateRun, called by a user of the package with any RunStatus,   *)
(* and the `run end` command (runEnd), which calls it.                     *)

RunStatusRunning == "RUNNING"
RunStatusFinished == "FINISHED"
RunStatusFailed == "FAILED"
RunStatusKilled == "KILLED"

\* RunStatus is a string type: values a caller can pass
RunStatusValues ==
    {RunStatusRunning, RunStatusFinished, RunStatusFailed, RunStatusKilled, "SCHEDULED", ""}

\* --status values
StatusFlags == {"FINISHED", "FAILED", "KILLED", "RUNNING", "finished", ""}

validRunStatuses ==
    [s \in {"FINISHED", "FAILED", "KILLED"} |->
        CASE s = "FINISHED" -> RunStatusFinished
          [] s = "FAILED" -> RunStatusFailed
          [] s = "KILLED" -> RunStatusKilled]

\* the switch of UpdateRun: the status sent to the tracking service
UpdateRunStatus(status) ==
    CASE status = RunStatusRunning -> "RUNNING"
      [] status = RunStatusFinished -> "FINISHED"
      [] status = RunStatusFailed -> "FAILED"
      [] status = RunStatusKilled -> "KILLED"
      [] OTHER -> "FINISHED"

\* "Set end time for terminal statuses": the test of UpdateRun
SetsEndTime(status) ==
    status = RunStatusFinished \/ status = RunStatusFailed \/ status = RunStatusKilled

InitUpdateRun ==
    /\ mode \in {"UpdateRun", "runEnd"}
    /\ pc = IF mode = "runEnd" THEN "command" ELSE "updateRun"
    /\ cfg \in Configs
    /\ mode = "UpdateRun" => cfg.TrackingURI # <<>>      \* NewClient has succeeded
    /\ files = <<>>
    /\ artifactPath = <<>>
    /\ i = 1
    /\ remaining = {}
    /\ successCount = 0
    /\ result = "none"
    /\ attempts = <<>>
    /\ notFound = {}
    /\ uploaded = {}
    /\ calls = <<>>
    /\ err = ""
    /\ artifactURI = <<>>
    /\ targetPath = <<>>
    /\ ids = NoIDs
    /\ credentials = <<>>
    /\ file = NoFile
    /\ req = NoReq
    /\ fs = {}
    /\ metrics = <<>>
    /\ config = [Resolution |-> "1m", Alignment |-> "floor", StepMode |-> "auto"]
    /\ baseTime = Nil
    /\ base = 0
    /\ resultMetrics = <<>>
    /\ clock = T0 + 10
    /\ settings = [TimeResolution |-> "1m", TimeAlignment |-> "floor", StepMode |-> "auto"]
    /\ IF mode = "runEnd"
       THEN flags \in [status : StatusFlags] /\ runStatus = ""
       ELSE flags = [status |-> ""] /\ runStatus \in RunStatusValues

\* runEnd up to the call of UpdateRun
RunEndStart ==
    /\ pc = "command"
    /\ mode = "runEnd"
    /\ \/ /\ Validate(cfg, settings) # ""
          /\ err' = Validate(cfg, settings)
          /\ result' = "error" /\ pc' = "rejected"
          /\ UNCHANGED runStatus
       \/ /\ Validate(cfg, settings) = ""
          /\ err' = "CreateClientFailed"
          /\ result' = "error" /\ pc' = "rejected"
          /\ UNCHANGED runStatus
       \/ /\ Validate(cfg, settings) = ""
          /\ IF flags.status \in DOMAIN validRunStatuses
             THEN /\ runStatus' = validRunStatuses[flags.status]
                  /\ err' = ""
                  /\ result' = "none" /\ pc' = "updateRun"
             ELSE /\ err' = "invalid status"
                  /\ result' = "error" /\ pc' = "rejected"
                  /\ UNCHANGED runStatus
    /\ UNCHANGED <<mode, cfg, files, artifactPath, i, remaining, successCount, attempts,
                   notFound, uploaded, calls, artifactURI, targetPath, ids, credentials,
                   file, req, fs, metrics, config, baseTime, base, resultMetrics, clock,
                   settings, flags>>

\* Client.UpdateRun: the request (EndTime 0 is an end time not set) and its outcome
UpdateRun ==
    /\ pc = "updateRun"
    /\ mode \in {"UpdateRun", "runEnd"}
    /\ \E now \in (IF SetsEndTime(runStatus) THEN Now ELSE {clock}), ok \in BOOLEAN :
          /\ calls' = Append(calls, [op |-> "UpdateRun",
                                     Status |-> UpdateRunStatus(runStatus),
                                     EndTime |-> IF SetsEndTime(runStatus) THEN now ELSE 0,
                                     ok |-> ok])
          /\ clock' = now
          /\ err' = IF ok THEN "" ELSE "UpdateRunFailed"
          /\ result' = IF ok THEN "ok" ELSE "error"
    /\ pc' = "done"
    /\ UNCHANGED <<mode, cfg, files, artifactPath, i, remaining, successCount, attempts,
                   notFound, uploaded, artifactURI, targetPath, ids, credentials,
                   file, req, fs, metrics, config, baseTime, base, resultMetrics,
                   CmdVars>>

NextUpdateRun ==
    \/ RunEndStart
    \/ UpdateRun

SpecUpdateRun == InitUpdateRun /\ [][NextUpdateRun]_vars

----------------------------------------------------------------------------
(* Claims.                                                                 *)

Range(q) == {q[k] : k \in DOMAIN q}

\* positions of the log holding a call of kind op made for file k
CallsOf(k, op) == {p \in DOMAIN calls : calls[p].file = k /\ calls[p].op = op}

\* positions of the log holding any call made for file k
CallsFor(k) == {p \in DOMAIN calls : calls[p].file = k}

\* the artifact path logArtifact passes for file k
PathOf(k) == IF artifactPath # <<>> THEN artifactPath ELSE Base(files[k])

\* C1: once `log artifact` has run its loop over n >= 1 files, every file has been
\* attempted, in input order, whatever happened to the earlier ones, and every file
\* whose stat did not skip it was handed to UploadArtifact; the command returns an
\* error if and only if no file was uploaded successfully.
C1_AllAttemptedErrorIffNoneUploaded ==
    /\ pc = "done" =>
          /\ attempts = [k \in 1..Len(files) |-> k]
          /\ \A k \in 1..Len(files) : k \notin notFound => CallsOf(k, "GetRun") # {}
    /\ pc \in {"done", "rejected"} => (result = "error" <=> uploaded = {})

\* C1 witness: three files, the first missing, the second failing, the third uploaded
C1_Witness ==
    /\ pc = "done"
    /\ Len(files) = 3
    /\ notFound = {1}
    /\ uploaded = {3}
    /\ result = "ok"

\* C2: when Client.UploadArtifacts has returned, every file of the request has been
\* attempted, also after the upload of one of them failed.
C2_EveryFileAttempted ==
    (mode = "UploadArtifacts" /\ pc = "done") => Range(attempts) = DOMAIN files

\* C3: a file whose stat reports that it does not exist causes no request at all and
\* is never counted, every file is still attempted once the loop is over, and the
\* success count is the number of files whose upload returned success.
C3_MissingFileSkippedCountExact ==
    /\ \A k \in notFound : CallsFor(k) = {} /\ k \notin uploaded
    /\ pc = "done" => Range(attempts) = DOMAIN files
    /\ successCount = Cardinality(uploaded)

\* C3 witness: three files, the second missing, the others uploaded: success, 2/3
C3_Witness ==
    /\ pc = "done"
    /\ Len(files) = 3
    /\ notFound = {2}
    /\ uploaded = {1, 3}
    /\ successCount = 2
    /\ result = "ok"

\* the artifact root matches one of the known schemes
KnownScheme(uri) ==
    \/ HasPrefix(uri, MlflowArtifactsScheme)
    \/ HasPrefix(uri, DbfsScheme)
    \/ HasPrefix(uri, FileScheme)
    \/ HasPrefix(uri, Slash)

\* the GetRun request of the upload in progress was answered
RootResolved == \E p \in CallsOf(i, "GetRun") : calls[p].ok

\* C4 as claimed: an upload whose artifact root matches no known scheme fails with
\* the unsupported-scheme error and no network call at all was made for it.
C4_NoCallBeforeUnsupported ==
    (pc = "return" /\ RootResolved /\ ~KnownScheme(artifactURI)) =>
        /\ err = "UnsupportedScheme"
        /\ CallsFor(i) = {}

\* C4 amended: an upload whose non-empty artifact root matches no known scheme fails
\* with the unsupported-scheme error after the single GetRun request that fetched
\* the root and before anything else: no credential request, no PUT, no request
\* built, no file opened.
C4_OnlyGetRunBeforeUnsupported ==
    (pc = "return" /\ RootResolved /\ artifactURI # <<>> /\ ~KnownScheme(artifactURI)) =>
        /\ err = "UnsupportedScheme"
        /\ Cardinality(CallsFor(i)) = 1
        /\ CallsFor(i) = CallsOf(i, "GetRun")
        /\ req = NoReq
        /\ file = NoFile

\* C4 witness: the run's root is "s3://b" and the upload has failed
C4_Witness ==
    /\ pc = "return"
    /\ artifactURI = <<"s", "3", ":", "/", "/", "b">>
    /\ err = "UnsupportedScheme"
    /\ CallsFor(i) = CallsOf(i, "GetRun")

\* C5: for every root "mlflow-artifacts:/E/R" followed by zero or more further
\* segments, E and R non-empty, the extracted experiment ID is E and the run ID is R.
C5_IDsAligned ==
    \A E \in Segments \ {<<>>}, R \in Segments \ {<<>>}, rest \in SeqsUpTo(Segments, MaxSegments - 2) :
        (mode = "extract" /\ pc # "mlflow-artifacts"
           /\ artifactURI = MlflowArtifactsScheme \o Join(<<E, R>> \o rest)) =>
            /\ ~ids.err
            /\ ids.experimentID = E
            /\ ids.runID = R

\* C6: when the broker answers the credentials request of an upload with zero
\* credentials, the upload returns an error and no signed PUT is made or built;
\* no file counted as uploaded went through the broker without a successful PUT.
C6_EmptyCredentialsFail ==
    /\ (pc = "return" /\ credentials = <<>>
          /\ \E p \in CallsOf(i, "CredentialsForWrite") : calls[p].ok) =>
            /\ err # ""
            /\ CallsOf(i, "PutSigned") = {}
            /\ req = NoReq
    /\ \A k \in uploaded :
          CallsOf(k, "CredentialsForWrite") # {} =>
              \E p \in CallsOf(k, "PutSigned") : calls[p].ok

\* C6 witness: the broker answered with an empty list and the upload has failed
C6_Witness ==
    /\ pc = "return"
    /\ credentials = <<>>
    /\ \E p \in CallsOf(i, "CredentialsForWrite") : calls[p].ok
    /\ err = "NoCredentials"

\* C7: every credentials-for-write request names exactly the artifact path of the
\* file it is made for; an upload makes at most one such request, and exactly one
\* before it opens the file for the signed PUT; a file gets at most one signed PUT,
\* and each signed PUT uses the credential issued by the request of its own upload,
\* so no two PUTs use the same credential.
C7_OneCredentialPerUpload ==
    /\ \A p \in DOMAIN calls :
          calls[p].op = "CredentialsForWrite" => calls[p].paths = <<PathOf(calls[p].file)>>
    /\ \A k \in DOMAIN files :
          /\ Cardinality(CallsOf(k, "CredentialsForWrite")) <= 1
          /\ Cardinality(CallsOf(k, "PutSigned")) <= 1
    /\ pc \in {"openSigned", "putSigned"} =>
          Cardinality(CallsOf(i, "CredentialsForWrite")) = 1
    /\ \A p \in DOMAIN calls :
          calls[p].op = "PutSigned" =>
              /\ calls[p].cred \in CallsOf(calls[p].file, "CredentialsForWrite")
              /\ calls[p].cred < p
              /\ calls[calls[p].cred].ok
    /\ \A p, q \in DOMAIN calls :
          (calls[p].op = "PutSigned" /\ calls[q].op = "PutSigned" /\ p # q) =>
              calls[p].cred # calls[q].cred

\* C7 witness: two files with the same artifact path, each uploaded with a signed
\* PUT under its own credential
C7_Witness ==
    /\ Len(files) >= 2
    /\ PathOf(1) = PathOf(2)
    /\ \E p \in CallsOf(1, "PutSigned"), q \in CallsOf(2, "PutSigned") :
          calls[p].ok /\ calls[q].ok /\ calls[p].cred # calls[q].cred

\* C8: when the configuration is not in Databricks mode or the client has no API
\* client, no credentials request and no signed PUT is ever sent, and an upload
\* routed to dbfs:/ returns an error.
C8_FailsClosed ==
    ~(IsDatabricks(cfg) /\ cfg.apiClient) =>
        /\ \A p \in DOMAIN calls : calls[p].op \notin {"CredentialsForWrite", "PutSigned"}
        /\ (pc = "return" /\ HasPrefix(artifactURI, DbfsScheme)) =>
              err # "" /\ req = NoReq

\* C8 witness: an API client, but not Databricks mode; the dbfs:/ upload has failed
C8_Witness ==
    /\ pc = "return"
    /\ ~IsDatabricks(cfg)
    /\ cfg.apiClient
    /\ ~ids.err
    /\ HasPrefix(artifactURI, DbfsTrackingPrefix)
    /\ err = "NotDatabricks"

\* the default headers of a signed request for a credential type and a file size
DefaultHeaderNames(type) ==
    {"Content-Type", "Content-Length"}
        \cup (IF type = "AZURE_SAS_URI" THEN {"X-Ms-Blob-Type"} ELSE {})

DefaultHeaderValue(n, size) ==
    CASE n = "Content-Type" -> "application/octet-stream"
      [] n = "Content-Length" -> FormatInt(size)
      [] n = "X-Ms-Blob-Type" -> "BlockBlob"

\* positions of the custom headers whose name is n, whatever the case
CustomAt(headers, n) == {j \in DOMAIN headers : CanonicalKey(headers[j].Name) = n}

Max(S) == CHOOSE x \in S : \A y \in S : y <= x

\* C9: the signed request has every default header of its credential type; a header
\* named by a custom header carries the value of the last custom header of that
\* name, every other header is a default with its default value.
C9_DefaultsKeptCustomOverrides ==
    (pc = "return" /\ req.kind = "signed" /\ ~req.err) =>
        LET c == credentials[1]
        IN  /\ DefaultHeaderNames(c.Type) \subseteq DOMAIN req.Header
            /\ \A n \in DOMAIN req.Header :
                  IF CustomAt(c.Headers, n) # {}
                  THEN req.Header[n] = c.Headers[Max(CustomAt(c.Headers, n))].Value
                  ELSE /\ n \in DefaultHeaderNames(c.Type)
                       /\ req.Header[n] = DefaultHeaderValue(n, file.size)
            /\ \A j \in DOMAIN c.Headers : CanonicalKey(c.Headers[j].Name) \in DOMAIN req.Header

\* C9 witness: an Azure blob credential with two custom content-type headers and a
\* custom blob type: the second content type and the custom blob type are sent
C9_Witness ==
    /\ pc = "return"
    /\ req.kind = "signed"
    /\ ~req.err
    /\ credentials[1].Type = "AZURE_SAS_URI"
    /\ credentials[1].Headers = << [Name |-> "Content-Type", Value |-> "v1"],
                                   [Name |-> "Content-Type", Value |-> "v2"] >>
    /\ req.Header["Content-Type"] = "v2"
    /\ req.Header["X-Ms-Blob-Type"] = "BlockBlob"
    /\ req.Header["Content-Length"] = FormatInt(file.size)

\* C10: a signed PUT that was sent for an AWS_PRESIGNED_URL credential carries no
\* Transfer-Encoding header.
C10_NoTransferEncoding ==
    (pc = "return" /\ req.kind = "signed" /\ req.status # 0
       /\ credentials[1].Type = "AWS_PRESIGNED_URL") =>
        "Transfer-Encoding" \notin DOMAIN req.Header

\* C11: an upload whose PUT request was built (by either uploader) returns nil if
\* and only if the request was answered with a status s, 200 <= s < 300; with any
\* other status, and when the transport failed, it returns an error.
C11_SuccessIffStatus2xx ==
    (pc = "return" /\ req.kind \in {"direct", "signed"} /\ ~req.err) =>
        /\ req.status \in Statuses \cup {TransportError}
        /\ (err = "") <=> (req.status # TransportError /\ 200 <= req.status /\ req.status < 300)
        /\ calls[Len(calls)].ok <=> (err = "")

\* C11 witness: the direct-store uploader got status 300 and returned an error
C11_Witness ==
    /\ pc = "return"
    /\ req.kind = "direct"
    /\ ~req.err
    /\ req.status = 300
    /\ err = "BadStatus"

\* C12: once an uploading routine has returned, on whichever path, the process
\* holds no open file handle; none is open between the uploads of a request.
C12_HandlesClosed ==
    pc \in {"return", "loop", "range", "done", "rejected"} => file.open = {}

\* C12 witness: the second file of a request, after a first upload that succeeded,
\* has left uploadToLocalFS with a copy failure: source and destination were opened
C12_Witness ==
    /\ pc = "return"
    /\ Len(attempts) = 2
    /\ 1 \in uploaded
    /\ err = "CopyFailed"
    /\ file.open = {}

\* a resolution in ticks of 30 s
ResolutionTicks(resolution) ==
    CASE resolution = "1m" -> 2
      [] resolution = "5m" -> 10
      [] resolution = "1h" -> 120

\* the single timestamped point has been processed under a supported resolution
\* and the given alignment
AlignedWith(alignment) ==
    /\ mode = "ProcessMetrics"
    /\ i = 2
    /\ Len(metrics) = 1
    /\ ~metrics[1].Timestamp.nil
    /\ config.Resolution \in {"1m", "5m", "1h"}
    /\ config.Alignment = alignment

\* the multiple of r that is at most t and less than r below it
FloorOf(t, r) == CHOOSE f \in (t - r + 1)..t : f % r = 0

\* C13: with alignment floor, the timestamp f given to a point of timestamp t is
\* a multiple of the resolution r with f <= t and t - f < r.
C13_FloorIsMultipleBelow ==
    AlignedWith("floor") =>
        LET t == metrics[1].Timestamp.v
            r == ResolutionTicks(config.Resolution)
            f == resultMetrics[1].Timestamp
        IN  /\ Len(resultMetrics) = 2
            /\ f % r = 0
            /\ f <= t
            /\ t - f < r

\* C13 witness: 3 min 30 s after the hour at resolution 5m is floored to the hour
C13_Witness ==
    /\ AlignedWith("floor")
    /\ config.Resolution = "5m"
    /\ metrics[1].Timestamp.v = T0 + 7
    /\ resultMetrics[1].Timestamp = T0

\* C14: with alignment ceil, the timestamp c given to a point of timestamp t is
\* floor(t, r) if and only if t is a multiple of r, and floor(t, r) + r otherwise;
\* so c >= t and c - t < r.
C14_CeilIsFloorIffAligned ==
    AlignedWith("ceil") =>
        LET t == metrics[1].Timestamp.v
            r == ResolutionTicks(config.Resolution)
            c == resultMetrics[1].Timestamp
        IN  /\ (c = FloorOf(t, r)) <=> (t % r = 0)
            /\ (t % r # 0) => (c = FloorOf(t, r) + r)
            /\ c >= t
            /\ c - t < r

\* C14 witness: 30 s before the zero time at resolution 1m is raised to the zero time
C14_Witness ==
    /\ AlignedWith("ceil")
    /\ config.Resolution = "1m"
    /\ metrics[1].Timestamp.v = 0 - 1
    /\ resultMetrics[1].Timestamp = 0

\* C15: with alignment round, the timestamp given to a point of timestamp t is
\* floor(t, r) when t - floor(t, r) < r/2 and floor(t, r) + r when
\* t - floor(t, r) >= r/2.
C15_RoundHalfUp ==
    AlignedWith("round") =>
        LET t == metrics[1].Timestamp.v
            r == ResolutionTicks(config.Resolution)
            fl == FloorOf(t, r)
            x == resultMetrics[1].Timestamp
        IN  /\ (2 * (t - fl) < r) => (x = fl)
            /\ (2 * (t - fl) >= r) => (x = fl + r)

\* C15 witness: the exact half-way point, 30 s after the hour at resolution 1m, is
\* rounded up to the next minute
C15_Witness ==
    /\ AlignedWith("round")
    /\ config.Resolution = "1m"
    /\ metrics[1].Timestamp.v = T0 + 1
    /\ resultMetrics[1].Timestamp = T0 + 2

\* positions of the result holding the metrics made from input point k
MetricsOf(k) == {j \in DOMAIN resultMetrics : resultMetrics[j].point = k}

\* positions of the result holding the metrics made from points before point k
MetricsBefore(k) == {j \in DOMAIN resultMetrics : resultMetrics[j].point < k}

InProcessMetrics == mode = "ProcessMetrics" /\ pc \in {"range", "done"}

\* C16: every metric made from a point that carries an explicit step has that
\* step, whatever the step mode, resolution and alignment, with or without a
\* timestamp.
C16_ExplicitStepKept ==
    InProcessMetrics =>
        \A j \in DOMAIN resultMetrics :
            LET point == metrics[resultMetrics[j].point]
            IN  ~point.Step.nil => resultMetrics[j].Step = point.Step.v

\* C16 witness: in sequence mode the second point, which has a timestamp and the
\* explicit step 7, comes after two metrics and keeps step 7
C16_Witness ==
    /\ InProcessMetrics
    /\ config.StepMode = "sequence"
    /\ Len(metrics) = 2
    /\ i = 3
    /\ metrics[2].Step = Ptr(7)
    /\ ~metrics[2].Timestamp.nil
    /\ Cardinality(MetricsBefore(2)) = 2
    /\ \A j \in MetricsOf(2) : resultMetrics[j].Step = 7
    /\ MetricsOf(2) # {}

C18_SequentialNumbering ==
    (InProcessMetrics /\ config.StepMode = "sequence"
       /\ \A k \in DOMAIN metrics : metrics[k].Step.nil) =>
        \A j \in DOMAIN resultMetrics : resultMetrics[j].Step = resultMetrics[j].point - 1

\* the number of metrics the fields of a point call for
FieldCount(point) ==
    1 + (IF point.ExecutionTime # 0 THEN 1 ELSE 0) + (IF point.SuccessRate # 0 THEN 1 ELSE 0)

RECURSIVE SumFieldCounts(_)
SumFieldCounts(points) ==
    IF points = <<>> THEN 0 ELSE FieldCount(Head(points)) + SumFieldCounts(Tail(points))

KeysOf(k, key) == {j \in MetricsOf(k) : resultMetrics[j].Key = key}

\* C19: for every point processed by a call that has not failed there is exactly
\* one error_count metric, one execution_time metric iff execution_time # 0 and
\* one success_rate metric iff success_rate # 0, and nothing else, so the result
\* has as many metrics as the points' fields call for.
C19_OneMetricPerField ==
    (InProcessMetrics /\ err = "") =>
        /\ \A k \in 1..(i - 1) :
              /\ Cardinality(KeysOf(k, "error_count")) = 1
              /\ Cardinality(KeysOf(k, "execution_time"))
                    = (IF metrics[k].ExecutionTime # 0 THEN 1 ELSE 0)
              /\ Cardinality(KeysOf(k, "success_rate"))
                    = (IF metrics[k].SuccessRate # 0 THEN 1 ELSE 0)
              /\ Cardinality(MetricsOf(k)) = FieldCount(metrics[k])
        /\ Len(resultMetrics) = SumFieldCounts(SubSeq(metrics, 1, i - 1))

\* C19 witness: a point whose three values are 0 and a point with an execution
\* time and an error count give three metrics
C19_Witness ==
    /\ InProcessMetrics
    /\ pc = "done"
    /\ result = "ok"
    /\ Len(metrics) = 2
    /\ metrics[1].ErrorCount = 0 /\ metrics[1].ExecutionTime = 0 /\ metrics[1].SuccessRate = 0
    /\ metrics[2].ErrorCount = 2 /\ metrics[2].ExecutionTime = 1
    /\ Len(resultMetrics) = 3
    /\ resultMetrics[1].Key = "error_count"
    /\ resultMetrics[1].Value = 0

\* the whole minutes from b to a, truncated toward zero (a minute is two ticks)
WholeMinutes(a, b) ==
    IF a >= b THEN (a - b) \div 2 ELSE 0 - ((b - a) \div 2)

\* C20: in timestamp mode a point without an explicit step gets as step the whole
\* minutes from the base time to the timestamp its metrics carry, truncated toward
\* zero, also when that is negative.
C20_StepIsWholeMinutes ==
    (InProcessMetrics /\ config.StepMode = "timestamp") =>
        \A j \in DOMAIN resultMetrics :
            metrics[resultMetrics[j].point].Step.nil =>
                resultMetrics[j].Step = WholeMinutes(resultMetrics[j].Timestamp, base)

\* the time configuration has a resolution or an alignment AlignTimestamp rejects
BadTimeConfig ==
    \/ config.Resolution \notin {"1m", "5m", "1h"}
    \/ config.Alignment \notin {"floor", "ceil", "round"}

\* C21 as stated: a call on a non-empty batch with a bad resolution or alignment
\* ends with an error and an empty result, whichever points carry timestamps.
C21_BadConfigAlwaysFails ==
    (InProcessMetrics /\ pc = "done" /\ BadTimeConfig /\ Len(metrics) >= 1) =>
        (result = "error" /\ resultMetrics = <<>>)

\* C21, amended: with a bad resolution or alignment the call fails, with an error
\* and an empty result, exactly when it meets a point that carries a timestamp,
\* however many points it processed before; no metric is ever returned for a
\* timestamped point; a batch without any timestamp is processed to the end.
C21_BadConfigFailsAtFirstTimestamp ==
    (InProcessMetrics /\ BadTimeConfig) =>
        /\ \A j \in DOMAIN resultMetrics : metrics[resultMetrics[j].point].Timestamp.nil
        /\ pc = "done" =>
              /\ (\E k \in DOMAIN metrics : ~metrics[k].Timestamp.nil)
                    <=> (result = "error" /\ err # "")
              /\ result = "error" => resultMetrics = <<>>
              /\ result = "ok" => Len(resultMetrics) >= Len(metrics)

\* C21 witness: under alignment "nearest" the first point, without a timestamp,
\* was processed, the second has a timestamp: the call failed with nothing returned
C21_Witness ==
    /\ InProcessMetrics
    /\ pc = "done"
    /\ config.Alignment = "nearest"
    /\ Len(metrics) = 2
    /\ metrics[1].Timestamp.nil
    /\ ~metrics[2].Timestamp.nil
    /\ result = "error"
    /\ err = "unsupported alignment"
    /\ resultMetrics = <<>>

\* the `log metrics` command has called ProcessMetrics
ProcessMetricsCalled == mode = "logMetrics" /\ pc \in {"start", "range", "logBatch", "done"}

\* C22: the time configuration the `log metrics` command passes to ProcessMetrics
\* has a resolution in {1m, 5m, 1h}, an alignment in {floor, ceil, round} and a
\* step mode in {auto, timestamp, sequence}, whether from the configuration or
\* from the flags.
C22_TimeConfigValidated ==
    ProcessMetricsCalled =>
        /\ config.Resolution \in {"1m", "5m", "1h"}
        /\ config.Alignment \in {"floor", "ceil", "round"}
        /\ config.StepMode \in {"auto", "timestamp", "sequence"}

C23_StepsMonotonic ==
    (InProcessMetrics /\ config.StepMode \in {"auto", "timestamp", "sequence"}
       /\ \A k \in DOMAIN metrics : metrics[k].Step.nil) =>
        \A j1, j2 \in DOMAIN resultMetrics :
            j1 < j2 => resultMetrics[j1].Step <= resultMetrics[j2].Step

\* place of a key in the order in which the fields of a point are converted
KeyRank(key) ==
    CASE key = "execution_time" -> 1
      [] key = "success_rate" -> 2
      [] key = "error_count" -> 3

\* C24: the metrics made from one point carry the same timestamp and the same
\* step; the result is in the order of the points, and within a point in the
\* order execution_time, success_rate, error_count.
C24_PointSharesTimestampAndStep ==
    InProcessMetrics =>
        \A j1, j2 \in DOMAIN resultMetrics :
            /\ resultMetrics[j1].point = resultMetrics[j2].point =>
                  /\ resultMetrics[j1].Timestamp = resultMetrics[j2].Timestamp
                  /\ resultMetrics[j1].Step = resultMetrics[j2].Step
            /\ j1 < j2 =>
                  /\ resultMetrics[j1].point <= resultMetrics[j2].point
                  /\ resultMetrics[j1].point = resultMetrics[j2].point =>
                        KeyRank(resultMetrics[j1].Key) < KeyRank(resultMetrics[j2].Key)

\* C24 witness: in sequence mode a point without timestamp and step gives the
\* three metrics execution_time, success_rate, error_count, all with step 0 and
\* one timestamp, and the metrics of the next point have step 3
C24_Witness ==
    /\ InProcessMetrics
    /\ config.StepMode = "sequence"
    /\ Len(metrics) = 2
    /\ i = 3
    /\ metrics[1].Step.nil /\ metrics[1].Timestamp.nil
    /\ metrics[2].Step.nil
    /\ Len(resultMetrics) = 5
    /\ resultMetrics[1].Key = "execution_time"
    /\ resultMetrics[2].Key = "success_rate"
    /\ resultMetrics[3].Key = "error_count"
    /\ \A j \in 1..3 : resultMetrics[j].Step = 0 /\ resultMetrics[j].point = 1
    /\ resultMetrics[1].Timestamp = resultMetrics[3].Timestamp
    /\ resultMetrics[4].Step = 3 /\ resultMetrics[5].Step = 3

\* metrics of the result made in auto mode from points without an explicit step
AutoMetrics ==
    IF InProcessMetrics /\ config.StepMode = "auto"
    THEN {j \in DOMAIN resultMetrics : metrics[resultMetrics[j].point].Step.nil}
    ELSE {}

\* C25: in auto mode a point without an explicit step gets the whole minutes from
\* the base time to its aligned timestamp if it has a timestamp, and the number of
\* metrics already emitted if it has none.
C25_AutoWholeMinutesOrCount ==
    \A j \in AutoMetrics :
        LET k == resultMetrics[j].point
        IN  IF ~metrics[k].Timestamp.nil
            THEN resultMetrics[j].Step = WholeMinutes(resultMetrics[j].Timestamp, base)
            ELSE resultMetrics[j].Step = Cardinality(MetricsBefore(k))

\* C25, the part that holds: the rule is chosen per point as stated; the
\* timestamp rule gives the whole minutes when the difference fits a Duration,
\* and the minutes of the largest or smallest Duration otherwise.
C25_AutoRulePerPoint ==
    \A j \in AutoMetrics :
        LET k == resultMetrics[j].point
            d == resultMetrics[j].Timestamp - base
        IN  IF ~metrics[k].Timestamp.nil
            THEN resultMetrics[j].Step =
                    (IF d > maxDuration THEN WholeMinutes(maxDuration, 0)
                     ELSE IF d < 0 - maxDuration THEN WholeMinutes(0, maxDuration)
                     ELSE WholeMinutes(resultMetrics[j].Timestamp, base))
            ELSE resultMetrics[j].Step = Cardinality(MetricsBefore(k))

\* one batch in auto mode mixes the rules: the first point, 90 s
\* after the base time, has step 1 (1m, floor) and makes two metrics; the second
\* has no timestamp and gets step 2
C25_MixedBatch ==
    /\ InProcessMetrics
    /\ config = [Resolution |-> "1m", Alignment |-> "floor", StepMode |-> "auto"]
    /\ baseTime = Ptr(T0)
    /\ Len(metrics) = 2
    /\ i = 3
    /\ metrics[1].Timestamp = Ptr(T0 + 3) /\ metrics[1].Step.nil
    /\ metrics[2].Timestamp.nil /\ metrics[2].Step.nil
    /\ Cardinality(MetricsOf(1)) = 2
    /\ \A j \in MetricsOf(1) : resultMetrics[j].Step = 1
    /\ \A j \in MetricsOf(2) : resultMetrics[j].Step = 2
    /\ MetricsOf(2) # {}

\* C27: without a base time supplied, in timestamp mode the metrics of a first
\* point that has a timestamp and no explicit step have step 0, under every
\* supported resolution and alignment (so that no step is negative).
C27_FirstStepZero ==
    (InProcessMetrics /\ baseTime.nil /\ config.StepMode = "timestamp"
       /\ config.Resolution \in {"1m", "5m", "1h"}
       /\ config.Alignment \in {"floor", "ceil", "round"}
       /\ ~metrics[1].Timestamp.nil /\ metrics[1].Step.nil) =>
        \A j \in MetricsOf(1) : resultMetrics[j].Step = 0

\* C28: a call of uploadToLocalFS that returns an error has created no directory
\* and no file under the artifact root.
C28_FailedCopyLeavesTree ==
    [][(pc = "localfs" /\ err' # "") => fs' = fs]_vars

\* C29: a signed request has an Authorization header only when the broker's
\* custom headers name one, and then with the broker's value, never the token
\* of the configuration; a direct request has one only in Databricks mode.
C29_TokenNotOnSignedPut ==
    (pc = "return" /\ ~req.err) =>
        /\ req.kind = "signed" =>
              LET custom == CustomAt(credentials[1].Headers, "Authorization")
              IN  /\ "Authorization" \in DOMAIN req.Header <=> custom # {}
                  /\ custom # {} =>
                        req.Header["Authorization"] = credentials[1].Headers[Max(custom)].Value
        /\ (req.kind = "direct" /\ "Authorization" \in DOMAIN req.Header) => IsDatabricks(cfg)

\* C29 witness: in Databricks mode, with a token configured, a signed request
\* whose credential names no Authorization header was sent without one
C29_Witness ==
    /\ pc = "return"
    /\ req.kind = "signed"
    /\ ~req.err
    /\ req.status = 200
    /\ IsDatabricks(cfg)
    /\ cfg.Token = "Bearer t"
    /\ CustomAt(credentials[1].Headers, "Authorization") = {}
    /\ "Authorization" \notin DOMAIN req.Header

\* the UpdateRun requests sent
UpdateRunCalls == {j \in DOMAIN calls : calls[j].op = "UpdateRun"}

\* C30: an UpdateRun request carries an end time exactly when the status it
\* sends is FINISHED, FAILED or KILLED, whatever RunStatus the caller passed.
C30_EndTimeIffTerminalSent ==
    \A j \in UpdateRunCalls :
        calls[j].EndTime # 0 <=> calls[j].Status \in {"FINISHED", "FAILED", "KILLED"}

====
